---- MODULE Spec2Model ----
(***************************************************************************)
(* A model of PhishGuard (src/src/phishguard.py).                          *)
(*                                                                         *)
(* A Python str is a sequence of one-character strings, so that prefix     *)
(* tests, splitting on ".", lowercasing and the Levenshtein distance are   *)
(* computed character by character, as the code computes them.             *)
(***************************************************************************)
EXTENDS Integers, Sequences, FiniteSets, TLC

----------------------------------------------------------------------------
(* str primitives                                                          *)

Uppers == <<"A", "B", "C", "D", "E", "F", "G", "H", "I", "J", "K", "L", "M",
            "N", "O", "P", "Q", "R", "S", "T", "U", "V", "W", "X", "Y", "Z">>

Lowers == <<"a", "b", "c", "d", "e", "f", "g", "h", "i", "j", "k", "l", "m",
            "n", "o", "p", "q", "r", "s", "t", "u", "v", "w", "x", "y", "z">>

Digits == {"0", "1", "2", "3", "4", "5", "6", "7", "8", "9"}

Range(s) == {s[k] : k \in 1..Len(s)}

\* str.lower() on one character
LowerChar(c) ==
    IF \E k \in 1..26 : Uppers[k] = c
    THEN Lowers[CHOOSE k \in 1..26 : Uppers[k] = c]
    ELSE c

\* a function on 1..n as the sequence of its values
Tuple(f, n) == SubSeq(f, 1, n)

\* str.lower()
Lower(s) == Tuple([k \in 1..Len(s) |-> LowerChar(s[k])], Len(s))

\* s[a:b] with 1-based inclusive positions; empty when a > b
Slice(s, a, b) == IF a > b THEN <<>> ELSE SubSeq(s, a, b)

\* s.startswith(p)
StartsWith(s, p) == Len(p) <= Len(s) /\ SubSeq(s, 1, Len(p)) = p

\* s.find(c) over a set of characters, from position a: the first position
\* k >= a with s[k] \in cs, or Len(s) + 1 when there is none
FindFrom(s, cs, a) ==
    IF \E k \in a..Len(s) : s[k] \in cs
    THEN CHOOSE k \in a..Len(s) : s[k] \in cs /\ \A j \in a..(k - 1) : s[j] \notin cs
    ELSE Len(s) + 1

\* s.count('.')
CountDots(s) == Cardinality({k \in 1..Len(s) : s[k] = "."})

\* s.split('.'): the sequence of the pieces between the dots (never empty)
RECURSIVE SplitFrom(_, _)
SplitFrom(s, a) ==
    LET d == FindFrom(s, {"."}, a)
    IN  IF d > Len(s) THEN <<Slice(s, a, Len(s))>>
        ELSE <<Slice(s, a, d - 1)>> \o SplitFrom(s, d + 1)

SplitDots(s) == SplitFrom(s, 1)

Dot == <<".">>

Min2(a, b) == IF a <= b THEN a ELSE b

Max2(a, b) == IF a >= b THEN a ELSE b

----------------------------------------------------------------------------
(* Levenshtein.distance: unit-cost insertions, deletions, substitutions.   *)
(* The table is computed row by row; position j of a row is column j - 1.  *)

\* the cells j.. of a row, given the cell before them: an insertion after
\* the cell on the left, or the best deletion or substitution (cand)
RECURSIVE LevCells(_, _, _)
LevCells(cand, j, left) ==
    IF j > Len(cand) THEN <<>>
    ELSE LET v == Min2(cand[j], left + 1)
         IN  <<v>> \o LevCells(cand, j + 1, v)

\* the row of character c from the row before it, prev
LevRow(prev, c, t) ==
    LET m    == Len(t) + 1
        cand == Tuple([k \in 1..m |->
                    IF k = 1 THEN prev[1] + 1
                    ELSE Min2(prev[k] + 1,
                              prev[k - 1] + (IF t[k - 1] = c THEN 0 ELSE 1))], m)
    IN  <<cand[1]>> \o LevCells(cand, 2, cand[1])

RECURSIVE LevRows(_, _, _, _)
LevRows(s, t, i, prev) ==
    IF i > Len(s) THEN prev[Len(t) + 1]
    ELSE LET row == LevRow(prev, s[i], t)
         IN  IF Len(row) = Len(prev) THEN LevRows(s, t, i + 1, row) ELSE -1

levenshtein_distance(s, t) ==
    LevRows(s, t, 1, Tuple([j \in 1..(Len(t) + 1) |-> j - 1], Len(t) + 1))

----------------------------------------------------------------------------
(* urllib.parse, as far as phishguard.py uses it: urlparse(...).netloc and *)
(* urljoin(base, link). A URL is split into scheme, netloc, path, query    *)
(* and fragment. Not modelled: dot segments ("..", "."), ";params", and    *)
(* the stripping of leading control characters; Hrefs below holds no link  *)
(* that uses them.                                                         *)

Str_http == <<"h", "t", "t", "p">>

Str_https == <<"h", "t", "t", "p", "s">>

Str_ftp == <<"f", "t", "p">>

Str_file == <<"f", "i", "l", "e">>

\* urllib.parse.uses_relative and uses_netloc, restricted to the schemes met
UsesRelative == {<<>>, Str_http, Str_https, Str_ftp, Str_file}

UsesNetloc == {<<>>, Str_http, Str_https, Str_ftp, Str_file}

IsLetter(c) == \E k \in 1..26 : c = Uppers[k] \/ c = Lowers[k]

IsSchemeChar(c) == IsLetter(c) \/ c \in Digits \/ c \in {"+", "-", "."}

\* urlsplit, last step: the query is what follows the first "?" of the
\* part before the fragment; raised is urlsplit's ValueError ("Invalid
\* IPv6 URL": a netloc with one bracket and not the other)
SplitQuery(scheme, netloc, rest, fragment, q) ==
    [raised   |-> ("[" \in Range(netloc)) # ("]" \in Range(netloc)),
     scheme   |-> scheme,
     netloc   |-> netloc,
     path     |-> Slice(rest, 1, q - 1),
     query    |-> Slice(rest, q + 1, Len(rest)),
     fragment |-> fragment]

\* urlsplit: the fragment is what follows the first "#", at position h
SplitFragment(scheme, netloc, rest, h) ==
    SplitQuery(scheme, netloc, Slice(rest, 1, h - 1),
               Slice(rest, h + 1, Len(rest)),
               FindFrom(Slice(rest, 1, h - 1), {"?"}, 1))

\* urlsplit: after "//" the netloc runs to the first of "/", "?", "#"
SplitNetloc(scheme, rest, delim) ==
    IF StartsWith(rest, <<"/", "/">>)
    THEN SplitFragment(scheme, Slice(rest, 3, delim - 1),
                       Slice(rest, delim, Len(rest)),
                       FindFrom(Slice(rest, delim, Len(rest)), {"#"}, 1))
    ELSE SplitFragment(scheme, <<>>, rest, FindFrom(rest, {"#"}, 1))

\* urlsplit: url[:i] is a scheme when i is the first ":" and a letter and
\* scheme characters precede it
HasScheme(url, i) ==
    /\ 1 < i
    /\ i <= Len(url)
    /\ IsLetter(url[1])
    /\ \A k \in 1..(i - 1) : IsSchemeChar(url[k])

SplitScheme(url, default, i) ==
    IF HasScheme(url, i)
    THEN SplitNetloc(Lower(Slice(url, 1, i - 1)), Slice(url, i + 1, Len(url)),
                     FindFrom(Slice(url, i + 1, Len(url)), {"/", "?", "#"}, 3))
    ELSE SplitNetloc(default, url, FindFrom(url, {"/", "?", "#"}, 3))

\* urlsplit(url, scheme=default)
UrlSplit(url, default) == SplitScheme(url, default, FindFrom(url, {":"}, 1))

\* urlunparse((scheme, netloc, path, '', query, fragment))
UrlUnsplit(scheme, netloc, path, query, fragment) ==
    LET u1 == IF netloc # <<>> \/ (scheme # <<>> /\ scheme \in UsesNetloc
                                   /\ ~StartsWith(path, <<"/", "/">>))
              THEN <<"/", "/">> \o netloc
                   \o (IF path # <<>> /\ path[1] # "/" THEN <<"/">> ELSE <<>>)
                   \o path
              ELSE path
        u2 == IF scheme # <<>> THEN scheme \o <<":">> \o u1 ELSE u1
        u3 == IF query # <<>> THEN u2 \o <<"?">> \o query ELSE u2
    IN  IF fragment # <<>> THEN u3 \o <<"#">> \o fragment ELSE u3

\* the directory of a base path: up to its last "/" ("/" when it has none)
DirOf(p) ==
    IF "/" \in Range(p)
    THEN SubSeq(p, 1, CHOOSE k \in 1..Len(p) :
                          p[k] = "/" /\ \A j \in (k + 1)..Len(p) : p[j] # "/")
    ELSE <<"/">>

\* urljoin, once base and url are parsed into b and u
JoinParsed(b, u, url) ==
    IF b.raised \/ u.raised THEN [raised |-> TRUE, url |-> <<>>]
    ELSE IF u.scheme # b.scheme \/ u.scheme \notin UsesRelative
    THEN [raised |-> FALSE, url |-> url]
    ELSE IF u.scheme \in UsesNetloc /\ u.netloc # <<>>
    THEN [raised |-> FALSE,
          url |-> UrlUnsplit(u.scheme, u.netloc, u.path, u.query, u.fragment)]
    ELSE IF u.path = <<>>
    THEN [raised |-> FALSE,
          url |-> UrlUnsplit(u.scheme, b.netloc, b.path,
                             IF u.query = <<>> THEN b.query ELSE u.query,
                             u.fragment)]
    ELSE [raised |-> FALSE,
          url |-> UrlUnsplit(u.scheme, b.netloc,
                             IF u.path[1] = "/" THEN u.path
                             ELSE DirOf(b.path) \o u.path,
                             u.query, u.fragment)]

JoinBase(b, url) == JoinParsed(b, UrlSplit(url, b.scheme), url)

\* urljoin(base, url): [raised, url]
urljoin(base, url) ==
    IF base = <<>> THEN [raised |-> FALSE, url |-> url]
    ELSE IF url = <<>> THEN [raised |-> FALSE, url |-> base]
    ELSE JoinBase(UrlSplit(base, <<>>), url)

\* urlparse(url).netloc
Netloc(url) == UrlSplit(url, <<>>).netloc

----------------------------------------------------------------------------
(* The inputs: legitimate-domain lists, target URLs, hrefs of a page.      *)

\* "https://www.google.com"
U_google == <<"h", "t", "t", "p", "s", ":", "/", "/", "w", "w", "w", ".",
            "g", "o", "o", "g", "l", "e", ".", "c", "o", "m">>

\* "https://www.facebook.com"
U_facebook == <<"h", "t", "t", "p", "s", ":", "/", "/", "w", "w", "w",
              ".", "f", "a", "c", "e", "b", "o", "o", "k", ".", "c", "o",
              "m">>

\* "https://www.amazon.com"
U_amazon == <<"h", "t", "t", "p", "s", ":", "/", "/", "w", "w", "w", ".",
            "a", "m", "a", "z", "o", "n", ".", "c", "o", "m">>

\* "https://www.twitter.com"
U_twitter == <<"h", "t", "t", "p", "s", ":", "/", "/", "w", "w", "w", ".",
             "t", "w", "i", "t", "t", "e", "r", ".", "c", "o", "m">>

\* "https://www.microsoft.com"
U_microsoft == <<"h", "t", "t", "p", "s", ":", "/", "/", "w", "w", "w",
               ".", "m", "i", "c", "r", "o", "s", "o", "f", "t", ".", "c",
               "o", "m">>

\* "https://www.paypal.com"
U_paypal == <<"h", "t", "t", "p", "s", ":", "/", "/", "w", "w", "w", ".",
            "p", "a", "y", "p", "a", "l", ".", "c", "o", "m">>

\* "https://t.co"
U_tco == <<"h", "t", "t", "p", "s", ":", "/", "/", "t", ".", "c", "o">>

\* "https://www.amazon.co.uk"
U_amazonuk == <<"h", "t", "t", "p", "s", ":", "/", "/", "w", "w", "w",
              ".", "a", "m", "a", "z", "o", "n", ".", "c", "o", ".", "u",
              "k">>

\* "https://gogle.com"
T_gogle == <<"h", "t", "t", "p", "s", ":", "/", "/", "g", "o", "g", "l",
           "e", ".", "c", "o", "m">>

\* "https://www.gogle.com"
T_www == <<"h", "t", "t", "p", "s", ":", "/", "/", "w", "w", "w", ".",
         "g", "o", "g", "l", "e", ".", "c", "o", "m">>

\* "https://Gogle.com"
T_mixed == <<"h", "t", "t", "p", "s", ":", "/", "/", "G", "o", "g", "l",
           "e", ".", "c", "o", "m">>

\* "https://x.co.uk"
T_couk == <<"h", "t", "t", "p", "s", ":", "/", "/", "x", ".", "c", "o",
          ".", "u", "k">>

\* "https://localhost"
T_local == <<"h", "t", "t", "p", "s", ":", "/", "/", "l", "o", "c", "a",
           "l", "h", "o", "s", "t">>

\* "#top"
H_frag == <<"#", "t", "o", "p">>

\* "mailto:a@b.co"
H_mail == <<"m", "a", "i", "l", "t", "o", ":", "a", "@", "b", ".", "c",
          "o">>

\* "javascript:void(0)"
H_js == <<"j", "a", "v", "a", "s", "c", "r", "i", "p", "t", ":", "v", "o",
        "i", "d", "(", "0", ")">>

\* "tel:123"
H_tel == <<"t", "e", "l", ":", "1", "2", "3">>

\* "/login"
H_login == <<"/", "l", "o", "g", "i", "n">>

\* "https://gogle.com/"
H_gogle == <<"h", "t", "t", "p", "s", ":", "/", "/", "g", "o", "g", "l",
           "e", ".", "c", "o", "m", "/">>

\* "https://www.google.com/"
H_google == <<"h", "t", "t", "p", "s", ":", "/", "/", "w", "w", "w", ".",
            "g", "o", "o", "g", "l", "e", ".", "c", "o", "m", "/">>

\* "https://shop.google.co.uk/"
H_shop == <<"h", "t", "t", "p", "s", ":", "/", "/", "s", "h", "o", "p",
          ".", "g", "o", "o", "g", "l", "e", ".", "c", "o", ".", "u", "k",
          "/">>

\* "http://["
H_bad == <<"h", "t", "t", "p", ":", "/", "/", "[">>

\* "//GOGLE.com/x"
H_upper == <<"/", "/", "G", "O", "G", "L", "E", ".", "c", "o", "m", "/",
           "x">>

\* "https://x.co/a"
H_xco == <<"h", "t", "t", "p", "s", ":", "/", "/", "x", ".", "c", "o",
         "/", "a">>

\* "https://paypa1.com"
H_paypa1 == <<"h", "t", "t", "p", "s", ":", "/", "/", "p", "a", "y", "p",
            "a", "1", ".", "c", "o", "m">>

\* PhishGuard.__init__: self.legitimate_domains
DefaultLegitimateDomains == <<U_google, U_facebook, U_amazon, U_twitter, U_microsoft>>

\* another list a caller may configure: a short base ("t.co") and a
\* compound suffix ("amazon.co.uk")
OtherLegitimateDomains == <<U_paypal, U_tco, U_amazonuk>>

LegitimateLists == {DefaultLegitimateDomains, OtherLegitimateDomains}

Targets == {<<>>, T_gogle, T_www, T_mixed, T_couk, T_local}

Hrefs == {<<>>, H_frag, H_mail, H_js, H_tel, H_login, H_gogle, H_google,
          H_shop, H_bad, H_upper, H_xco, H_paypa1}

\* at most MaxLinks anchors on a fetched page
MaxLinks == 2

\* the sets of at most n hrefs
RECURSIVE HrefSets(_)
HrefSets(n) ==
    IF n = 0 THEN {{}}
    ELSE LET smaller == HrefSets(n - 1)
         IN  smaller \cup {P \cup {h} : P \in smaller, h \in Hrefs}

Pages == HrefSets(MaxLinks)

\* a response body: empty text, or markup whose anchors carry hrefs
NoBody == [empty |-> TRUE, hrefs |-> {}]

Html(P) == [empty |-> FALSE, hrefs |-> P]

\* what requests.get + raise_for_status can do: raise a RequestException,
\* or answer with a body
RequestError == [status |-> "error", body |-> NoBody]

Answer(body) == [status |-> "ok", body |-> body]

TargetResponses == {RequestError, Answer(NoBody)} \cup {Answer(Html(P)) : P \in Pages}

PlainResponses == {RequestError, Answer(NoBody), Answer(Html({}))}

\* ssdeep.compare yields 0..100; the values around the alert threshold
ScoreValues == {0, 50, 51, 100}

\* strings for direct calls of calculate_similarity: all of length <= MaxSimLen
MaxSimLen == 2

SimAlphabet == {"a", "A", "b"}

SimStrings == UNION {[1..n -> SimAlphabet] : n \in 0..MaxSimLen}

----------------------------------------------------------------------------
(* The methods of PhishGuard                                               *)

\* fetch_html: "text" with the body, "None" (RequestException caught), or
\* "ValueError": the ValueError of line 34, which `except
\* requests.RequestException` does not catch
fetch_html(url, resp) ==
    IF url = <<>> THEN [kind |-> "ValueError", body |-> NoBody]
    ELSE IF resp.status = "error" THEN [kind |-> "None", body |-> NoBody]
    ELSE [kind |-> "text", body |-> resp.body]

\* `not html` for a value fetch_html returned
Falsy(r) == r.kind = "None" \/ r.body.empty

\* extract_links: the hrefs of the <a> tags, without the empty ones
extract_links(body) ==
    IF body.empty THEN {} ELSE {h \in body.hrefs : h # <<>>}

DroppedPrefixes == {<<"#">>,
                    <<"m", "a", "i", "l", "t", "o", ":">>,
                    <<"j", "a", "v", "a", "s", "c", "r", "i", "p", "t", ":">>,
                    <<"t", "e", "l", ":">>}

\* link.startswith(('#', 'mailto:', 'javascript:', 'tel:'))
HasDroppedPrefix(link) == \E p \in DroppedPrefixes : StartsWith(link, p)

\* analyze_links, given what urljoin made of each link that was kept
Joined(joins) ==
    IF \E j \in joins : j.raised
    THEN [raised |-> TRUE, links |-> {}]
    ELSE [raised |-> FALSE, links |-> {j.url : j \in joins}]

\* analyze_links: [raised, links]; raised is urljoin's ValueError, which
\* analyze_links does not catch
analyze_links(links, base_url) ==
    IF links = {} THEN [raised |-> FALSE, links |-> {}]
    ELSE Joined({urljoin(base_url, l) : l \in {k \in links : ~HasDroppedPrefix(k)}})

\* line 132 without the + 1: the longer length as the sentinel
SimilarityResult_NoMargin(s1, s2, fails, dist) ==
    IF s1 = <<>> \/ s2 = <<>> THEN Len(s1) + Len(s2)
    ELSE IF fails THEN Max2(Len(s1), Len(s2))
    ELSE dist

\* calculate_similarity, given what levenshtein_distance does: it returns
\* dist, or raises (fails) and the except clause answers
SimilarityResult(s1, s2, fails, dist) ==
    IF s1 = <<>> \/ s2 = <<>> THEN Len(s1) + Len(s2)
    ELSE IF fails THEN Max2(Len(s1) + 1, Len(s2) + 1)
    ELSE dist

calculate_similarity(s1, s2, fails) ==
    SimilarityResult(s1, s2, fails, levenshtein_distance(Lower(s1), Lower(s2)))

\* check_typo_squatting, line 164: the domain of a link's hostname, whose
\* split('.') is parts
DomainOf(hostname, parts) ==
    IF CountDots(hostname) > 1 /\ parts[Len(parts) - 1] # <<"c", "o">>
    THEN parts[Len(parts) - 1] \o Dot \o parts[Len(parts)]
    ELSE hostname

LinkDomain(hostname) == DomainOf(hostname, SplitDots(hostname))

\* parts[-2] + '.' + parts[-1]: raised is the IndexError of [-2] on a
\* split with one piece
LastTwoOf(parts) ==
    IF Len(parts) < 2 THEN [raised |-> TRUE, base |-> <<>>]
    ELSE [raised |-> FALSE,
          base |-> parts[Len(parts) - 1] \o Dot \o parts[Len(parts)]]

\* x.split('.')[-2] + '.' + x.split('.')[-1]
LastTwo(x) == LastTwoOf(SplitDots(x))

\* line 166: the target's own domain
TargetDomain(target) == LastTwo(Netloc(target))

\* line 170: legit_domain_base
LegitDomainBase(legit_domain) == LastTwo(Lower(legit_domain))

\* line 172
Threshold(legit_domain_base) == IF Len(legit_domain_base) <= 7 THEN 2 ELSE 3

\* line 175
IsFinding(distance, threshold) == distance > 0 /\ distance <= threshold

\* line 225 with >= for >
IsAlert_AtLeast(score) == score >= 50

\* line 225
IsAlert(score) == score > 50

----------------------------------------------------------------------------
(* State                                                                   *)

VARIABLES
    legitimate_domains,  \* self.legitimate_domains
    pc,                  \* where run_analysis stands
    target_url,          \* the argument of run_analysis
    clean_links,         \* check_typo_squatting: the normalized links
    todo,                \* the links the for loop of line 161 has not reached
    suspicious_domains,  \* check_typo_squatting: the warnings collected
    last_link,           \* what the last iteration of the link loop did
    typo_fetch,          \* the outcome of the fetch of line 148
    typo_ret,            \* how check_typo_squatting ended
    printed,             \* the typo-squat warnings printed (lines 183-184)
    content,             \* how each compare_page_content call ended
    last_cmp,            \* what the last compare_page_content call did
    call                 \* the last direct call of a method, and its result

vars == <<legitimate_domains, pc, target_url, clean_links, todo,
          suspicious_domains, last_link, typo_fetch, typo_ret, printed,
          content, last_cmp, call>>

NoLink == [link |-> <<>>, domain |-> <<>>, raised |-> FALSE, skipped |-> FALSE,
           hits |-> {}, found |-> {}, failed |-> FALSE, from_failure |-> {}]

NoCmp == [legit_url |-> <<>>, target |-> "not_fetched", legit |-> "not_fetched",
          scored |-> FALSE, score |-> 0, emitted |-> FALSE, ret |-> FALSE]

NoCall == [op |-> "none"]

Init ==
    /\ legitimate_domains \in LegitimateLists
    /\ pc = "idle"
    /\ target_url = <<>>
    /\ clean_links = {}
    /\ todo = {}
    /\ suspicious_domains = {}
    /\ last_link = NoLink
    /\ typo_fetch = "not_fetched"
    /\ typo_ret = "running"
    /\ printed = {}
    /\ content = <<>>
    /\ last_cmp = NoCmp
    /\ call = NoCall

run_vars == <<pc, target_url, clean_links, todo, suspicious_domains, last_link,
              typo_fetch, typo_ret, printed, content, last_cmp>>

----------------------------------------------------------------------------
(* Direct calls of the methods that read no state of the object. Each is   *)
(* a pure function of its arguments, so one call is made per behaviour.    *)

FetchHtmlCall ==
    /\ pc = "idle"
    /\ call = NoCall
    /\ \E url \in Targets, resp \in PlainResponses :
           call' = [op |-> "fetch_html", url |-> url, ret |-> fetch_html(url, resp)]
    /\ UNCHANGED <<legitimate_domains, run_vars>>

AnalyzeLinksCall ==
    /\ pc = "idle"
    /\ call = NoCall
    /\ \E links \in Pages, base_url \in Targets :
           call' = [op |-> "analyze_links", links |-> links, base_url |-> base_url,
                    ret |-> analyze_links(links, base_url)]
    /\ UNCHANGED <<legitimate_domains, run_vars>>

CalculateSimilarityCall ==
    /\ pc = "idle"
    /\ call = NoCall
    /\ \E s1 \in SimStrings, s2 \in SimStrings, fails \in BOOLEAN :
           call' = [op |-> "calculate_similarity", s1 |-> s1, s2 |-> s2,
                    failed |-> (fails /\ s1 # <<>> /\ s2 # <<>>),
                    ret |-> calculate_similarity(s1, s2, fails)]
    /\ UNCHANGED <<legitimate_domains, run_vars>>

----------------------------------------------------------------------------
(* run_analysis(target_url)                                                *)

\* lines 245-247: run_analysis is entered and calls check_typo_squatting
RunAnalysis ==
    /\ pc = "idle"
    /\ \E t \in Targets : target_url' = t
    /\ pc' = "typo"
    /\ call' = [op |-> "run_analysis"]
    /\ UNCHANGED <<legitimate_domains, clean_links, todo, suspicious_domains,
                   last_link, typo_fetch, typo_ret, printed, content, last_cmp>>

\* lines 154-159: the links are normalized; urljoin's ValueError reaches
\* the except clause of line 189, which returns []
TypoLinks(clean) ==
    IF clean.raised
    THEN /\ typo_ret' = "[]"
         /\ pc' = "typo_done"
         /\ UNCHANGED <<clean_links, todo>>
    ELSE /\ clean_links' = clean.links
         /\ todo' = clean.links
         /\ pc' = "links"
         /\ UNCHANGED typo_ret

\* lines 145-152, html being what fetch_html returned (were it called): the
\* ValueError of line 146 reaches the except clause of line 189
TypoFetched(html) ==
    IF target_url = <<>> \/ legitimate_domains = <<>>
    THEN /\ typo_ret' = "[]"
         /\ pc' = "typo_done"
         /\ UNCHANGED <<typo_fetch, clean_links, todo>>
    ELSE IF Falsy(html)
    THEN /\ typo_fetch' = "failed"
         /\ typo_ret' = "None"
         /\ pc' = "typo_done"
         /\ UNCHANGED <<clean_links, todo>>
    ELSE /\ typo_fetch' = "ok"
         /\ TypoLinks(analyze_links(extract_links(html.body), target_url))

\* lines 144-159: the guard, the fetch of the target, extract_links and
\* analyze_links
CheckTypoFetch ==
    /\ pc = "typo"
    /\ \E resp \in TargetResponses : TypoFetched(fetch_html(target_url, resp))
    /\ UNCHANGED <<legitimate_domains, target_url, suspicious_domains, last_link,
                   printed, content, last_cmp, call>>

\* levenshtein_distance(domain.lower(), base.lower()) for each base
RECURSIVE Distances(_, _, _)
Distances(domain, bases, k) ==
    IF k > Len(bases) THEN <<>>
    ELSE <<levenshtein_distance(Lower(domain), Lower(bases[k]))>>
         \o Distances(domain, bases, k + 1)

\* lines 175-180: the warnings of one link, d[k] being its distance to
\* bases[k]; failed are the comparisons whose levenshtein_distance raised,
\* from_failure those among them that gave a warning
Warnings(link, domain, bases, d, failed) ==
    [link |-> link, domain |-> domain, raised |-> FALSE, skipped |-> FALSE,
     hits |-> {k \in DOMAIN bases : IsFinding(d[k], Threshold(bases[k]))},
     found |-> {[domain |-> domain, legit |-> bases[k], distance |-> d[k]] :
                k \in {j \in DOMAIN bases : IsFinding(d[j], Threshold(bases[j]))}},
     failed |-> failed # {},
     from_failure |-> {k \in failed : IsFinding(d[k], Threshold(bases[k]))}]

\* lines 169-180 for one link: one outcome for each set F of comparisons
\* whose levenshtein_distance call raises
Comparisons(link, domain, bases, dists) ==
    {Warnings(link, domain, bases,
              Tuple([k \in DOMAIN bases |->
                        SimilarityResult(domain, bases[k], k \in F, dists[k])],
                    Len(bases)),
              {k \in F : domain # <<>> /\ bases[k] # <<>>})
     : F \in SUBSET (DOMAIN bases)}

LegitBases(legits) ==
    Tuple([k \in DOMAIN legits |-> LegitDomainBase(legits[k]).base], Len(legits))

\* lines 164-170, once the link and the target are parsed
LinkOutcomes(link, domain, own) ==
    IF own.raised
    THEN {[NoLink EXCEPT !.link = link, !.raised = TRUE]}
    ELSE IF domain = own.base
    THEN {[NoLink EXCEPT !.link = link, !.domain = domain, !.skipped = TRUE]}
    ELSE IF \E k \in DOMAIN legitimate_domains :
                LegitDomainBase(legitimate_domains[k]).raised
    THEN {[NoLink EXCEPT !.link = link, !.domain = domain, !.raised = TRUE]}
    ELSE Comparisons(link, domain, LegitBases(legitimate_domains),
                     Distances(domain, LegitBases(legitimate_domains), 1))

\* lines 162-180 for one link: what the iteration can do
LinkSteps(link) ==
    IF UrlSplit(link, <<>>).raised
    THEN {[NoLink EXCEPT !.link = link, !.raised = TRUE]}
    ELSE LinkOutcomes(link, LinkDomain(Netloc(link)), TargetDomain(target_url))

\* one iteration of the loop of line 161; an exception leaves the loop for
\* the except clause of line 189
CheckLink ==
    /\ pc = "links"
    /\ todo # {}
    /\ \E link \in todo :
         \E step \in LinkSteps(link) :
             /\ last_link' = step
             /\ todo' = todo \ {link}
             /\ IF step.raised
                THEN /\ typo_ret' = "[]"
                     /\ pc' = "typo_done"
                     /\ UNCHANGED suspicious_domains
                ELSE /\ suspicious_domains' = suspicious_domains \cup step.found
                     /\ UNCHANGED <<typo_ret, pc>>
    /\ UNCHANGED <<legitimate_domains, target_url, clean_links, typo_fetch,
                   printed, content, last_cmp, call>>

\* lines 182-186: the loop is over, the warnings are printed
TypoReport ==
    /\ pc = "links"
    /\ todo = {}
    /\ printed' = suspicious_domains
    /\ typo_ret' = "None"
    /\ pc' = "typo_done"
    /\ UNCHANGED <<legitimate_domains, target_url, clean_links, todo,
                   suspicious_domains, last_link, typo_fetch, content, last_cmp,
                   call>>

\* check_typo_squatting has returned: its locals are gone; line 249
TypoReturn ==
    /\ pc = "typo_done"
    /\ clean_links' = {}
    /\ todo' = {}
    /\ suspicious_domains' = {}
    /\ last_link' = NoLink
    /\ pc' = "content"
    /\ UNCHANGED <<legitimate_domains, target_url, typo_fetch, typo_ret, printed,
                   content, last_cmp, call>>

\* compare_page_content(target_url, legit_url) for the next legit_url of the
\* loop of line 250. The ValueError of fetch_html (empty URL) and the one of
\* line 209 reach the except clause of line 234.
Compare(legit_url, tresp, lresp, hashFails, score) ==
    LET t == fetch_html(target_url, tresp)
        l == fetch_html(legit_url, lresp)
        state(r) == IF r.kind = "text" /\ r.body.empty THEN "empty" ELSE r.kind
    IN  IF t.kind = "ValueError"
        THEN [NoCmp EXCEPT !.legit_url = legit_url, !.target = "ValueError"]
        ELSE IF l.kind = "ValueError" \/ Falsy(t) \/ Falsy(l) \/ hashFails
        THEN [NoCmp EXCEPT !.legit_url = legit_url, !.target = state(t),
                           !.legit = state(l)]
        ELSE [legit_url |-> legit_url, target |-> "text", legit |-> "text",
              scored |-> TRUE, score |-> score, emitted |-> IsAlert(score),
              ret |-> TRUE]

\* compare_page_content without its except clause: a failed comparison
\* leaves run_analysis by the exception
ComparePageContent_Uncaught ==
    /\ pc = "content"
    /\ Len(content) < Len(legitimate_domains)
    /\ \E tresp \in PlainResponses, lresp \in PlainResponses,
          hashFails \in BOOLEAN, score \in ScoreValues :
         LET cmp == Compare(legitimate_domains[Len(content) + 1], tresp, lresp,
                            hashFails, score)
         IN  /\ last_cmp' = cmp
             /\ content' = Append(content,
                                  IF cmp.ret THEN "compared"
                                  ELSE IF cmp.target = "text"
                                          /\ cmp.legit # "text"
                                  THEN "legit_failed"
                                  ELSE "failed")
             /\ pc' = IF cmp.ret THEN pc ELSE "raised"
    /\ UNCHANGED <<legitimate_domains, target_url, clean_links, todo,
                   suspicious_domains, last_link, typo_fetch, typo_ret, printed,
                   call>>

ComparePageContent ==
    /\ pc = "content"
    /\ Len(content) < Len(legitimate_domains)
    /\ \E tresp \in PlainResponses, lresp \in PlainResponses,
          hashFails \in BOOLEAN, score \in ScoreValues :
         LET cmp == Compare(legitimate_domains[Len(content) + 1], tresp, lresp,
                            hashFails, score)
         IN  /\ last_cmp' = cmp
             /\ content' = Append(content,
                                  IF cmp.ret THEN "compared"
                                  ELSE IF cmp.target = "text"
                                          /\ cmp.legit # "text"
                                  THEN "legit_failed"
                                  ELSE "failed")
    /\ UNCHANGED <<legitimate_domains, pc, target_url, clean_links, todo,
                   suspicious_domains, last_link, typo_fetch, typo_ret, printed,
                   call>>

\* line 253: the loop is over
Complete ==
    /\ pc = "content"
    /\ Len(content) = Len(legitimate_domains)
    /\ pc' = "complete"
    /\ UNCHANGED <<legitimate_domains, target_url, clean_links, todo,
                   suspicious_domains, last_link, typo_fetch, typo_ret, printed,
                   content, last_cmp, call>>

Next ==
    \/ FetchHtmlCall
    \/ AnalyzeLinksCall
    \/ CalculateSimilarityCall
    \/ RunAnalysis
    \/ CheckTypoFetch
    \/ CheckLink
    \/ TypoReport
    \/ TypoReturn
    \/ ComparePageContent
    \/ Complete

Spec == Init /\ [][Next]_vars

----------------------------------------------------------------------------
(* The specification's own functions, as spec.md states them               *)

\* spec.md 4.2, Domain Reducer: DomainBase of a hostname
DomainBaseOf(hostname, parts) ==
    IF Len(parts) < 3 THEN Lower(hostname)
    ELSE IF parts[Len(parts) - 1] = <<"c", "o">>
    THEN Lower(parts[Len(parts) - 2] \o Dot \o parts[Len(parts) - 1] \o Dot
               \o parts[Len(parts)])
    ELSE Lower(parts[Len(parts) - 1] \o Dot \o parts[Len(parts)])

DomainBase(hostname) == DomainBaseOf(hostname, SplitDots(hostname))

\* spec.md 4.4: the threshold of a legitimate base
BaseThreshold(base) == IF Len(base) <= 7 THEN 2 ELSE 3

\* spec.md 4.3: the case-insensitive edit distance
EditDistance(s1, s2) == levenshtein_distance(Lower(s1), Lower(s2))

\* the link loop has just dealt with a link without raising
LinkDone == last_link.link # <<>> /\ ~last_link.raised

----------------------------------------------------------------------------
(* Claims                                                                  *)

\* C1: if the fetch of the target URL fails, the run is terminal: no
\* content comparison is started, no legitimate URL is fetched and no
\* warning is reported.
C1_TargetFetchFailureIsTerminal ==
    typo_fetch = "failed" =>
        /\ content = <<>>
        /\ last_cmp.legit = "not_fetched"
        /\ ~last_cmp.emitted
        /\ printed = {}

\* C2: for every hostname taken from a normalized link, the domain the
\* detector uses is DomainBase(hostname): the hostname with fewer than 3
\* labels, the last three labels after "co", else the last two, lowercased.
C2_DetectorUsesDomainBase ==
    LinkDone => last_link.domain = DomainBase(Netloc(last_link.link))

\* C3: a normalized link whose DomainBase equals the target's own DomainBase
\* is skipped and yields no warning.
C3_OwnDomainIsSkipped ==
    (LinkDone /\ DomainBase(Netloc(last_link.link)) = DomainBase(Netloc(target_url)))
        => (last_link.skipped /\ last_link.found = {})

\* C4: for a link that is not skipped and every legitimate domain, a
\* warning is recorded exactly when the edit distance d between the link's
\* DomainBase and the legitimate DomainBase has 0 < d <= threshold, the
\* threshold being 2 for a base of at most 7 characters and 3 otherwise.
C4_FindingIffWithinThreshold ==
    (LinkDone /\ ~last_link.skipped /\ ~last_link.failed) =>
        \A k \in DOMAIN legitimate_domains :
            (k \in last_link.hits) <=>
                LET d == EditDistance(DomainBase(Netloc(last_link.link)),
                                      DomainBase(Netloc(legitimate_domains[k])))
                IN  0 < d /\ d <= BaseThreshold(DomainBase(Netloc(legitimate_domains[k])))

\* C5: an exception raised while the hostname or domain base of one link is
\* derived aborts that link only: the remaining links are still compared
\* and the warnings collected are still reported.
C5_LinkFailureIsContained ==
    (last_link.raised /\ pc = "typo_done") =>
        (todo = {} /\ typo_ret = "None" /\ printed = suspicious_domains)

\* C6: when the fetch of one legitimate URL fails, only that comparison is
\* skipped: run_analysis goes on to the next legitimate URL, the
\* comparisons are made in list order, and the run completes with one
\* comparison made per configured URL.
C6_LegitFetchFailureIsContained ==
    /\ content # <<>> => /\ Len(content) <= Len(legitimate_domains)
                         /\ last_cmp.legit_url = legitimate_domains[Len(content)]
    /\ (content # <<>> /\ content[Len(content)] = "legit_failed") =>
           /\ pc \in {"content", "complete"}
           /\ pc = "content" => (ENABLED ComparePageContent \/ ENABLED Complete)
    /\ pc = "complete" => Len(content) = Len(legitimate_domains)

\* C6 witness: a run that completed although the fetch of a legitimate URL
\* had failed, with a later URL compared
C6_Witness ==
    /\ pc = "complete"
    /\ \E i, j \in DOMAIN content :
           i < j /\ content[i] = "legit_failed" /\ content[j] = "compared"

\* C7: every element analyze_links returns is the resolution against the
\* base URL of an input link that is non-empty and has none of the prefixes
\* "#", "mailto:", "javascript:", "tel:".
C7_DroppedLinksAddNothing ==
    (call.op = "analyze_links" /\ ~call.ret.raised) =>
        \A x \in call.ret.links :
            \E l \in call.links :
                /\ l # <<>>
                /\ ~HasDroppedPrefix(l)
                /\ urljoin(call.base_url, l) = [raised |-> FALSE, url |-> x]

\* C8: compare_page_content emits a warning exactly when both bodies were
\* obtained non-empty and the fuzzy-hash score is above 50; with a body
\* empty or missing it fails, with no score computed and no warning.
C8_WarningIffScoreAbove50 ==
    /\ last_cmp.emitted <=> (/\ last_cmp.target = "text"
                             /\ last_cmp.legit = "text"
                             /\ last_cmp.scored
                             /\ last_cmp.score > 50)
    /\ (last_cmp.target # "text" \/ last_cmp.legit # "text") =>
           (~last_cmp.scored /\ ~last_cmp.emitted /\ ~last_cmp.ret)

\* C8 witness: both bodies obtained, a score of exactly 50, no warning
C8_Witness ==
    /\ last_cmp.target = "text"
    /\ last_cmp.legit = "text"
    /\ last_cmp.scored
    /\ last_cmp.score = 50
    /\ ~last_cmp.emitted

C10_FetchHtmlNeverRaises ==
    call.op = "fetch_html" => call.ret.kind \in {"text", "None"}

====
